---- MODULE Spec2Model ----
(***************************************************************************)
(* The full job server (src/unnamed/part_001): the job store with its      *)
(* timeout timers, the two subscription indexes over WebSocket             *)
(* connections, the broadcast dispatcher and the authenticated callback    *)
(* endpoint, as one state machine with one action per handler.             *)
(***************************************************************************)
EXTENDS Integers, Sequences, FiniteSets, TLC

VARIABLES
    jobs,     \* Map request_id -> job record            (part_001:30)
    subs,     \* Map request_id -> Set(ws)               (part_001:31)
    meta,     \* Map ws -> Set(request_id)               (part_001:32)
    ws,       \* each connection's life: "new", "open", "closing", "closed"
    timers,   \* the pending setTimeout handles, as <<request_id, n>>
    now,      \* the wall clock read by nowISO()
    out,      \* what the last handler answered and sent
    req       \* the callback request under test (authentication runs only)

vars == <<jobs, subs, meta, ws, timers, now, out, req>>

----------------------------------------------------------------------------
(* Bounds and value sets *)

MaxClock == 1       \* the clock ticks at most this many times
DigestBytes == 2    \* bytes of a digest (SHA-256 has 32; hex text is twice that)

Rid == {"r1", "r2"}          \* request ids
Conn == {"c1", "c2"}         \* connection objects

ABSENT == "<absent>"         \* a field or header that was not sent (undefined)
EMPTY == ""                  \* the empty string, which JavaScript treats as false
SHARED_SECRET == "s3cret"    \* process.env.SHARED_SECRET, required non-empty
WRONG_SECRET == "guess"

\* JavaScript truthiness of the values a payload field takes here
Truthy(x) == x \notin {ABSENT, EMPTY}

\* a || b
OrElse(a, b) == IF Truthy(a) THEN a ELSE b

NULL == 0                    \* timeoutId: null, or the number n of a handle

----------------------------------------------------------------------------
(* Hex text, Buffer.from(s, 'hex') and the HMAC *)

HexChars == <<"0", "1", "2", "3", "4", "5", "6", "7",
              "8", "9", "a", "b", "c", "d", "e", "f">>
UpperHex == <<"0", "1", "2", "3", "4", "5", "6", "7",
              "8", "9", "A", "B", "C", "D", "E", "F">>

IsHex(ch) == \E i \in 1..16 : HexChars[i] = ch \/ UpperHex[i] = ch

HexVal(ch) == (CHOOSE i \in 1..16 : HexChars[i] = ch \/ UpperHex[i] = ch) - 1

\* Buffer.from(s, 'hex'): one byte per pair of hex digits, stopping at the
\* first pair that is not hex; a trailing single character is dropped.
RECURSIVE HexDecode(_)
HexDecode(s) ==
    IF Len(s) < 2 \/ ~IsHex(s[1]) \/ ~IsHex(s[2]) THEN <<>>
    ELSE <<16 * HexVal(s[1]) + HexVal(s[2])>> \o HexDecode(SubSeq(s, 3, Len(s)))

\* digest('hex'): two lower-case digits per byte
RECURSIVE HexEncode(_)
HexEncode(bytes) ==
    IF bytes = <<>> THEN <<>>
    ELSE <<HexChars[(bytes[1] \div 16) + 1], HexChars[(bytes[1] % 16) + 1]>>
         \o HexEncode(Tail(bytes))

RECURSIVE BytesOf(_, _)
BytesOf(n, k) ==
    IF k = 0 THEN <<>> ELSE BytesOf(n \div 256, k - 1) \o <<n % 256>>

RECURSIVE Pow(_, _)
Pow(b, e) == IF e = 0 THEN 1 ELSE b * Pow(b, e - 1)

----------------------------------------------------------------------------
(* Callback payloads: the body as sent, as parsed and as re-serialised *)

RidVals == <<ABSENT, "r1", "r2">>
StatusVals == <<ABSENT, "completed", "processing", "pending", "failed">>
ResponseVals == <<ABSENT, EMPTY, "R1">>
SecretVals == <<ABSENT, SHARED_SECRET, WRONG_SECRET>>
FmtVals == <<"compact", "spaced">>

Range(f) == {f[i] : i \in DOMAIN f}
IndexOf(f, x) == CHOOSE i \in DOMAIN f : f[i] = x

\* req.body, the parsed JSON object
Bodies == [request_id : Range(RidVals), status : Range(StatusVals),
           response : Range(ResponseVals), shared_secret : Range(SecretVals)]

\* the bytes of a body: its content and how the sender laid the JSON out
\* ("compact" is the layout JSON.stringify writes, "spaced" any other)
Texts == [fmt : Range(FmtVals), content : Bodies]

\* bodyParser.json(): the layout is lost in parsing
Parse(text) == text.content

\* JSON.stringify(req.body || {}): always the compact layout
Stringify(body) == [fmt |-> "compact", content |-> body]

TextCode(t) ==
    ((((IndexOf(FmtVals, t.fmt) - 1) * Len(RidVals)
        + (IndexOf(RidVals, t.content.request_id) - 1)) * Len(StatusVals)
        + (IndexOf(StatusVals, t.content.status) - 1)) * Len(ResponseVals)
        + (IndexOf(ResponseVals, t.content.response) - 1)) * Len(SecretVals)
        + (IndexOf(SecretVals, t.content.shared_secret) - 1)

\* crypto.createHmac('sha256', secret).update(payload).digest('hex'): a keyed
\* digest of DigestBytes bytes, injective on the payloads of the model
HmacOf(payload, secret) ==
    HexEncode(BytesOf(((2 * TextCode(payload)
                          + (IF secret = SHARED_SECRET THEN 0 ELSE 1)) * 40503 + 12345)
                      % Pow(256, DigestBytes), DigestBytes))

HmacTable == [secret \in {SHARED_SECRET, WRONG_SECRET} |-> [t \in Texts |-> HmacOf(t, secret)]]

computeHmacHex(payload, secret) == HmacTable[secret][payload]

\* sigHeader.split('='): the parts between the "=" characters
RECURSIVE SplitEq(_)
SplitEq(s) ==
    IF \A i \in 1..Len(s) : s[i] # "=" THEN <<s>>
    ELSE LET i == CHOOSE k \in 1..Len(s) :
                      s[k] = "=" /\ \A m \in 1..(k - 1) : s[m] # "="
         IN  <<SubSeq(s, 1, i - 1)>> \o SplitEq(SubSeq(s, i + 1, Len(s)))

\* The authentication of POST /callbacks/fireworks: "" when the request
\* passes, else the error text of the 401. header is <<>> when X-Signature
\* is absent (or empty); body is req.body.
AuthError(header, body) ==
    IF header # <<>> THEN
        LET parts == SplitEq(header) IN
        IF Len(parts) # 2 \/ parts[1] # <<"sha256">> THEN "invalid signature format"
        ELSE LET a == HexDecode(parts[2])
                 b == HexDecode(computeHmacHex(Stringify(body), SHARED_SECRET))
             IN  IF Len(a) # Len(b) \/ a # b THEN "invalid signature" ELSE ""
    ELSE IF ~Truthy(body.shared_secret) \/ body.shared_secret # SHARED_SECRET
         THEN "invalid shared_secret" ELSE ""

----------------------------------------------------------------------------
(* Job records, events and the dispatcher *)

NullResponse == [k |-> "null"]
TextResponse(s) == [k |-> "text", v |-> s]
BodyResponse(body) == [k |-> "body", v |-> body]

\* response || req.body                                   (part_001:177)
StoredResponse(body) ==
    IF Truthy(body.response) THEN TextResponse(body.response) ELSE BodyResponse(body)

\* j.response || null                                     (part_001:90)
\* (as it would be if the snapshot never carried the response)
ResponseAlwaysNull(r) == NullResponse

ResponseOrNull(r) ==
    IF r.k = "null" \/ (r.k = "text" /\ ~Truthy(r.v)) THEN NullResponse ELSE r

HasJob(rid) == rid \in DOMAIN jobs

\* map.set(key, value)
MapSet(map, key, value) == [k \in DOMAIN map \cup {key} |-> IF k = key THEN value ELSE map[k]]

\* map.delete(key)
MapDelete(map, key) == [k \in DOMAIN map \ {key} |-> map[k]]

\* wss.clients: the connections whose 'close' event has not been emitted
Clients == {c \in Conn : ws[c] \in {"open", "closing"}}

\* safeSend delivers only to a connection whose readyState is OPEN
Writable(set) == {c \in set : ws[c] = "open"}

\* broadcastToRequest: the connections an event for rid is delivered to
\* (as it would be if the fallback ran whenever no subscriber is writable)
BroadcastTargetsFallbackOnNoWritable(rid) ==
    IF rid \in DOMAIN subs /\ Writable(subs[rid]) # {}
    THEN Writable(subs[rid])
    ELSE Writable(Clients)

BroadcastTargets(rid) ==
    IF rid \in DOMAIN subs /\ Cardinality(subs[rid]) # 0
    THEN Writable(subs[rid])
    ELSE Writable(Clients)

NoEvent == [type |-> "none"]
NoRequest == [k |-> "none"]

Out(op, rid, reply, note, event, to) ==
    [op |-> op, rid |-> rid, reply |-> reply, note |-> note, event |-> event, to |-> to]

\* the handle a new setTimeout returns: an object distinct from every handle
\* still referenced or pending for this request id
FreshHandle(rid) ==
    CHOOSE n \in 1..3 :
        /\ <<rid, n>> \notin timers
        /\ (HasJob(rid) => jobs[rid].timeoutId # n)
        /\ \A m \in 1..(n - 1) :
              <<rid, m>> \in timers \/ (HasJob(rid) /\ jobs[rid].timeoutId = m)

----------------------------------------------------------------------------
(* The handlers *)

Init ==
    /\ jobs = <<>>
    /\ subs = <<>>
    /\ meta = <<>>
    /\ ws = [c \in Conn |-> "new"]
    /\ timers = {}
    /\ now = 0
    /\ out = Out("init", ABSENT, 0, "", NoEvent, {})
    /\ req = NoRequest

\* time passes between two handlers
Tick ==
    /\ now < MaxClock
    /\ now' = now + 1
    /\ out' = Out("tick", ABSENT, 0, "", NoEvent, {})
    /\ UNCHANGED <<jobs, subs, meta, ws, timers, req>>

\* wss.on('connection')
Connect(c) ==
    /\ ws[c] = "new"
    /\ ws' = [ws EXCEPT ![c] = "open"]
    /\ meta' = MapSet(meta, c, {})
    /\ out' = Out("connect", ABSENT, 0, "", [type |-> "welcome"], {c})
    /\ UNCHANGED <<jobs, subs, timers, now, req>>

\* ws.on('message'): kind is "garbage" (JSON.parse throws), "null" (the JSON
\* text null), "other" (an object that is no subscribe) or "subscribe"; rid is
\* the message's request_id. JSON.parse("null") returns null inside the try,
\* and p.type, outside it, throws a TypeError that nothing catches: the
\* handler stops there, having written nothing (out.note records the fault).
Message(c, kind, rid) ==
    /\ ws[c] = "open"
    /\ IF kind = "null"
       THEN /\ out' = Out("message", rid, 0, "TypeError", NoEvent, {})
            /\ UNCHANGED <<subs, meta>>
       ELSE IF kind = "subscribe" /\ Truthy(rid)
       THEN /\ subs' = MapSet(subs, rid,
                        (IF rid \in DOMAIN subs THEN subs[rid] ELSE {}) \cup {c})
            /\ meta' = MapSet(meta, c, meta[c] \cup {rid})
            /\ out' = IF HasJob(rid)
                      THEN Out("message", rid, 0, "",
                               [type |-> "job_state", request_id |-> rid,
                                status |-> jobs[rid].status,
                                response |-> ResponseOrNull(jobs[rid].response)],
                               Writable({c}))
                      ELSE Out("message", rid, 0, "", NoEvent, {})
       ELSE /\ out' = Out("message", rid, 0, "", NoEvent, {})
            /\ UNCHANGED <<subs, meta>>
    /\ UNCHANGED <<jobs, ws, timers, now, req>>

\* the socket stops being writable (readyState leaves OPEN) before its
\* 'close' event is emitted
BeginClose(c) ==
    /\ ws[c] = "open"
    /\ ws' = [ws EXCEPT ![c] = "closing"]
    /\ out' = Out("closing", ABSENT, 0, "", NoEvent, {})
    /\ UNCHANGED <<jobs, subs, meta, timers, now, req>>

\* subs after the loop of the 'close' handler over the request ids in s
\* (as it would be if the loop dropped the whole subscriber set of each id)
UnsubscribeDropsSets(map, c, s) == [k \in DOMAIN map \ s |-> map[k]]

RECURSIVE Unsubscribe(_, _, _)
Unsubscribe(map, c, s) ==
    IF s = {} THEN map
    ELSE LET rid == CHOOSE r \in s : TRUE
             next == IF rid \notin DOMAIN map THEN map
                     ELSE IF map[rid] \ {c} = {} THEN MapDelete(map, rid)
                     ELSE MapSet(map, rid, map[rid] \ {c})
         IN  Unsubscribe(next, c, s \ {rid})

\* ws.on('close')
Close(c) ==
    /\ ws[c] \in {"open", "closing"}
    /\ ws' = [ws EXCEPT ![c] = "closed"]
    /\ subs' = IF c \in DOMAIN meta THEN Unsubscribe(subs, c, meta[c]) ELSE subs
    /\ meta' = MapDelete(meta, c)
    /\ out' = Out("close", ABSENT, 0, "", NoEvent, {})
    /\ UNCHANGED <<jobs, timers, now, req>>

\* POST /start: rid is the fresh request id the handler generates
Start(rid) ==
    /\ ~HasJob(rid)
    /\ jobs' = MapSet(jobs, rid,
                 [status |-> "pending", response |-> NullResponse,
                  createdAt |-> now, updatedAt |-> now, timeoutId |-> NULL])
    /\ out' = Out("start", rid, 200, "", NoEvent, {})
    /\ UNCHANGED <<subs, meta, ws, timers, now, req>>

\* scheduleTimeout(rid): the old timer is cleared and a new one armed; the
\* result is the pair of the new job record and the new set of pending timers
ScheduleTimeout(rid, job) ==
    LET n == FreshHandle(rid) IN
    [job |-> [job EXCEPT !.timeoutId = n],
     timers |-> (IF job.timeoutId # NULL THEN timers \ {<<rid, job.timeoutId>>} ELSE timers)
                \cup {<<rid, n>>}]

\* POST /external-start with body {request_id: rid}
\* (as it would be if an unknown request id got a record instead of a 404)
ExternalStartUpserts(rid) ==
    IF ~Truthy(rid) THEN
        /\ out' = Out("external-start", rid, 400, "missing request_id", NoEvent, {})
        /\ UNCHANGED <<jobs, subs, meta, ws, timers, now, req>>
    ELSE IF HasJob(rid) /\ (jobs[rid].status = "completed" \/ jobs[rid].status = "timed_out") THEN
        /\ out' = Out("external-start", rid, 200, "job already finished", NoEvent, {})
        /\ UNCHANGED <<jobs, subs, meta, ws, timers, now, req>>
    ELSE
        LET old == IF HasJob(rid) THEN jobs[rid]
                   ELSE [status |-> "pending", response |-> NullResponse,
                         createdAt |-> now, updatedAt |-> now, timeoutId |-> NULL]
            job == [old EXCEPT !.status = "processing", !.updatedAt = now]
            armed == ScheduleTimeout(rid, job)
        IN  /\ jobs' = MapSet(jobs, rid, armed.job)
            /\ timers' = armed.timers
            /\ out' = Out("external-start", rid, 200,
                          "external processing started; timeout scheduled", NoEvent, {})
            /\ UNCHANGED <<subs, meta, ws, now, req>>

\* (as it would be if only a completed job counted as finished)
ExternalStartOverTimedOut(rid) ==
    IF ~Truthy(rid) THEN
        /\ out' = Out("external-start", rid, 400, "missing request_id", NoEvent, {})
        /\ UNCHANGED <<jobs, subs, meta, ws, timers, now, req>>
    ELSE IF ~HasJob(rid) THEN
        /\ out' = Out("external-start", rid, 404, "not found", NoEvent, {})
        /\ UNCHANGED <<jobs, subs, meta, ws, timers, now, req>>
    ELSE IF jobs[rid].status = "completed" THEN
        /\ out' = Out("external-start", rid, 200, "job already finished", NoEvent, {})
        /\ UNCHANGED <<jobs, subs, meta, ws, timers, now, req>>
    ELSE
        LET job == [jobs[rid] EXCEPT !.status = "processing", !.updatedAt = now]
            armed == ScheduleTimeout(rid, job)
        IN  /\ jobs' = MapSet(jobs, rid, armed.job)
            /\ timers' = armed.timers
            /\ out' = Out("external-start", rid, 200,
                          "external processing started; timeout scheduled", NoEvent, {})
            /\ UNCHANGED <<subs, meta, ws, now, req>>

ExternalStart(rid) ==
    IF ~Truthy(rid) THEN
        /\ out' = Out("external-start", rid, 400, "missing request_id", NoEvent, {})
        /\ UNCHANGED <<jobs, subs, meta, ws, timers, now, req>>
    ELSE IF ~HasJob(rid) THEN
        /\ out' = Out("external-start", rid, 404, "not found", NoEvent, {})
        /\ UNCHANGED <<jobs, subs, meta, ws, timers, now, req>>
    ELSE IF jobs[rid].status = "completed" \/ jobs[rid].status = "timed_out" THEN
        /\ out' = Out("external-start", rid, 200, "job already finished", NoEvent, {})
        /\ UNCHANGED <<jobs, subs, meta, ws, timers, now, req>>
    ELSE
        LET job == [jobs[rid] EXCEPT !.status = "processing", !.updatedAt = now]
            armed == ScheduleTimeout(rid, job)
        IN  /\ jobs' = MapSet(jobs, rid, armed.job)
            /\ timers' = armed.timers
            /\ out' = Out("external-start", rid, 200,
                          "external processing started; timeout scheduled", NoEvent, {})
            /\ UNCHANGED <<subs, meta, ws, now, req>>

\* the job record the timer callback leaves                (part_001:63-66)
\* (as it would be if the expiry stamped the record but left its status)
ExpireKeepsStatus(j) ==
    IF j.status # "completed" THEN [j EXCEPT !.updatedAt = now] ELSE j

Expire(j) ==
    IF j.status # "completed"
    THEN [j EXCEPT !.status = "timed_out", !.updatedAt = now]
    ELSE j

\* the callback of the timer h = <<rid, n>> runs, TIMEOUT_MS after it was armed
TimerFire(h) ==
    LET rid == h[1] IN
    /\ h \in timers
    /\ timers' = timers \ {h}
    /\ IF HasJob(rid) /\ jobs[rid].status # "completed"
       THEN /\ jobs' = MapSet(jobs, rid, Expire(jobs[rid]))
            /\ out' = Out("timer", rid, 0, "",
                          [type |-> "job_timeout", request_id |-> rid,
                           status |-> Expire(jobs[rid]).status],
                          BroadcastTargets(rid))
            /\ subs' = MapDelete(subs, rid)
       ELSE /\ out' = Out("timer", rid, 0, "", NoEvent, {})
            /\ UNCHANGED <<jobs, subs>>
    /\ UNCHANGED <<meta, ws, now, req>>

\* GET /status?request_id=rid. res.json(j) serialises the record; a pending
\* Timeout object is linked into the timer list, which is circular, so
\* JSON.stringify throws and the framework answers 500.
GetStatus(rid) ==
    /\ out' = IF ~Truthy(rid) THEN Out("status", rid, 400, "missing request_id", NoEvent, {})
              ELSE IF ~HasJob(rid) THEN Out("status", rid, 404, "not found", NoEvent, {})
              ELSE IF <<rid, jobs[rid].timeoutId>> \in timers
                   THEN Out("status", rid, 500, "", NoEvent, {})
              ELSE Out("status", rid, 200, "",
                       [type |-> "status", request_id |-> rid,
                        status |-> jobs[rid].status,
                        response |-> jobs[rid].response], {})
    /\ UNCHANGED <<jobs, subs, meta, ws, timers, now, req>>

\* the idempotency guard of the callback handler            (part_001:172)
\* (as it would be without the guard)
AlreadyDoneNever(job) == FALSE

AlreadyDone(job) == job.status = "completed"

\* the job record the callback handler stores              (part_001:174-178)
Apply(job, body) ==
    [job EXCEPT !.timeoutId = NULL,
                !.status = OrElse(body.status, "completed"),
                !.response = StoredResponse(body),
                !.updatedAt = now]

\* (the callback handler as it would be if it left the job's timer pending)
CallbackResultLeavesTimer(header, text) ==
    LET body == Parse(text)
        rid == body.request_id
        job == IF HasJob(rid) THEN jobs[rid]
               ELSE [status |-> ABSENT, response |-> NullResponse,
                     createdAt |-> now, updatedAt |-> now, timeoutId |-> NULL]
        Same(o) == [jobs |-> jobs, timers |-> timers, out |-> o]
    IN
    IF AuthError(header, body) # ""
    THEN Same(Out("callback", rid, 401, AuthError(header, body), NoEvent, {}))
    ELSE IF ~Truthy(rid) THEN Same(Out("callback", rid, 400, "missing request_id", NoEvent, {}))
    ELSE IF AlreadyDone(job) THEN Same(Out("callback", rid, 200, "already completed", NoEvent, {}))
    ELSE [jobs |-> MapSet(jobs, rid, Apply(job, body)),
          timers |-> timers,
          out |-> Out("callback", rid, 200, "",
                      [type |-> "job_completed", request_id |-> rid,
                       status |-> Apply(job, body).status,
                       response |-> Apply(job, body).response],
                      BroadcastTargets(rid))]

\* What POST /callbacks/fireworks does with X-Signature header (<<>> when
\* absent) and the body bytes text: the job store, the pending timers and the
\* answer it leaves.
CallbackResult(header, text) ==
    LET body == Parse(text)
        err == AuthError(header, body)
        rid == body.request_id
        job == IF HasJob(rid) THEN jobs[rid]
               ELSE [status |-> ABSENT, response |-> NullResponse,
                     createdAt |-> now, updatedAt |-> now, timeoutId |-> NULL]
        Same(o) == [jobs |-> jobs, timers |-> timers, out |-> o]
    IN
    IF err # "" THEN Same(Out("callback", rid, 401, err, NoEvent, {}))
    ELSE IF ~Truthy(rid) THEN Same(Out("callback", rid, 400, "missing request_id", NoEvent, {}))
    ELSE IF AlreadyDone(job) THEN Same(Out("callback", rid, 200, "already completed", NoEvent, {}))
    ELSE
        LET done == Apply(job, body) IN
        [jobs |-> MapSet(jobs, rid, done),
         timers |-> IF job.timeoutId # NULL THEN timers \ {<<rid, job.timeoutId>>}
                    ELSE timers,
         out |-> Out("callback", rid, 200, "",
                     [type |-> "job_completed", request_id |-> rid,
                      status |-> done.status, response |-> done.response],
                     BroadcastTargets(rid))]

\* POST /callbacks/fireworks
\* (as it would be if the job's timer were cleared before the checks)
CallbackDisarmsFirst(header, text) ==
    \E res \in {CallbackResult(header, text)} :
    /\ jobs' = res.jobs
    /\ timers' = {h \in res.timers : h[1] # Parse(text).request_id}
    /\ out' = res.out
    /\ UNCHANGED <<subs, meta, ws, now, req>>

Callback(header, text) ==
    \E res \in {CallbackResult(header, text)} :
    /\ jobs' = res.jobs
    /\ timers' = res.timers
    /\ out' = res.out
    /\ UNCHANGED <<subs, meta, ws, now, req>>

----------------------------------------------------------------------------
(* The requests the environment sends, and the specification *)

\* X-Signature: sha256=<digest>
SignatureHeader(digest) == <<"sha256", "=">> \o digest

\* the header of a sender that signs the bytes it sends with secret
Signed(text, secret) == SignatureHeader(computeHmacHex(text, secret))

\* callbacks naming the request ids in rids: every payload authenticated by
\* the in-body secret; the payloads without a status also signed over the
\* compact bytes, signed with another secret, and with a wrong or no in-body
\* secret; and one authenticated callback that names no request id
CallbackRequests(rids) ==
    LET B == {x \in Bodies : x.request_id \in rids} IN
    {[header |-> <<>>, text |-> Stringify(b)] :
        b \in {x \in B : x.shared_secret = SHARED_SECRET \/ x.status = ABSENT}}
    \cup {[header |-> Signed(Stringify(b), secret), text |-> Stringify(b)] :
            b \in {x \in B : x.shared_secret = ABSENT /\ x.status = ABSENT},
            secret \in {SHARED_SECRET, WRONG_SECRET}}
    \cup {[header |-> <<>>,
           text |-> Stringify([request_id |-> ABSENT, status |-> ABSENT,
                               response |-> "R1", shared_secret |-> SHARED_SECRET])]}

\* callbacks that report completion with a response and nothing else
PlainRequests(rids) ==
    {r \in CallbackRequests(rids) :
        /\ r.text.content.status = ABSENT
        /\ r.text.content.response = "R1"
        /\ r.header = <<>>}

Handles == Rid \X (1..3)

\* one job and one connection, every callback payload
SpecRids == {"r1"}
SpecConns == {"c1"}
SpecRequests == CallbackRequests(SpecRids)

Next ==
    \/ Tick
    \/ \E c \in SpecConns : Connect(c)
    \/ \E c \in SpecConns, kind \in {"garbage", "null", "other", "subscribe"},
          rid \in SpecRids \cup {ABSENT} : Message(c, kind, rid)
    \/ \E c \in SpecConns : BeginClose(c)
    \/ \E c \in SpecConns : Close(c)
    \/ \E rid \in SpecRids : Start(rid)
    \/ \E rid \in SpecRids \cup {ABSENT} : ExternalStart(rid)
    \/ \E h \in Handles : TimerFire(h)
    \/ \E rid \in SpecRids \cup {ABSENT} : GetStatus(rid)
    \/ \E r \in SpecRequests : Callback(r.header, r.text)

Spec == Init /\ [][Next]_vars

\* two jobs and two connections, plain callbacks, a clock that stands still
SubsRequests == PlainRequests(Rid)

SubsNext ==
    \/ \E c \in Conn : Connect(c)
    \/ \E c \in Conn, rid \in Rid : Message(c, "subscribe", rid)
    \/ \E c \in Conn : BeginClose(c)
    \/ \E c \in Conn : Close(c)
    \/ \E rid \in Rid : Start(rid)
    \/ \E rid \in Rid : ExternalStart(rid)
    \/ \E h \in Handles : TimerFire(h)
    \/ \E r \in SubsRequests : Callback(r.header, r.text)

SubsSpec == Init /\ [][SubsNext]_vars

----------------------------------------------------------------------------
(* Authentication on its own: one callback request, drawn from every way of *)
(* writing its X-Signature header, posted to the freshly started server     *)

\* d with its i-th character replaced by ch
Replace(d, i, ch) == [d EXCEPT ![i] = ch]

\* the digest part of header variants built from the digest d of the request
DigestVariants(d) ==
    {d, <<>>, SubSeq(d, 1, Len(d) - 2), SubSeq(d, 1, Len(d) - 1),
     [i \in 1..Len(d) |-> UpperHex[HexVal(d[i]) + 1]],
     d \o <<"0">>, d \o <<"0", "0">>, d \o <<"z">>, d \o <<"z", "z">>,
     <<"z", "z">> \o d, d \o <<"=">>, <<"=">> \o d}
    \cup {Replace(d, i, HexChars[v]) : i \in 1..Len(d), v \in 1..16}

\* the X-Signature headers tried for a request whose bytes are text
HeaderVariants(text) ==
    {<<>>}
    \cup {SignatureHeader(x) : x \in DigestVariants(computeHmacHex(text, SHARED_SECRET))}
    \cup {SignatureHeader(computeHmacHex(text, WRONG_SECRET))}
    \cup {scheme \o computeHmacHex(text, SHARED_SECRET) :
            scheme \in {<<>>, <<"sha256">>, <<"sha1", "=">>, <<"md5", "=">>,
                        <<"=">>, <<"sha256", "=", "sha256", "=">>}}

AuthTexts ==
    {t \in Texts : /\ t.content.status = ABSENT
                   /\ t.content.response = "R1"
                   /\ t.content.request_id # "r2"}

AuthRequests ==
    UNION {{[header |-> h, text |-> t] : h \in HeaderVariants(t)} : t \in AuthTexts}

AuthInit ==
    /\ jobs = <<>>
    /\ subs = <<>>
    /\ meta = <<>>
    /\ ws = [c \in Conn |-> "new"]
    /\ timers = {}
    /\ now = 0
    /\ out = Out("init", ABSENT, 0, "", NoEvent, {})
    /\ req \in AuthRequests

AuthNext == Callback(req.header, req.text)

AuthSpec == AuthInit /\ [][AuthNext]_vars

----------------------------------------------------------------------------
(* The callback-only server (src/server.js; src/unnamed/part_000 has the    *)
(* same handlers): jobs exist only through callbacks, connectionsByRequest  *)
(* is held in subs and the requestIds of clientsMeta in meta                *)

\* The authentication of its POST /callbacks/fireworks: "" when the request
\* passes, the error text of the 401, or "throw" when crypto.timingSafeEqual
\* is handed buffers of different byte lengths and throws a RangeError
\* (there is no length test before it).
OnlyAuthError(header, body) ==
    IF header # <<>> THEN
        LET parts == SplitEq(header) IN
        IF Len(parts) # 2 \/ parts[1] # <<"sha256">> THEN "invalid signature format"
        ELSE LET a == HexDecode(parts[2])
                 b == HexDecode(computeHmacHex(Stringify(body), SHARED_SECRET))
             IN  IF Len(a) # Len(b) THEN "throw"
                 ELSE IF a # b THEN "invalid signature" ELSE ""
    ELSE IF ~Truthy(body.shared_secret) \/ body.shared_secret # SHARED_SECRET
         THEN "invalid shared_secret" ELSE ""

\* the record the handler leaves in the store: status completed, whatever
\* status the payload carried, and response resp || record.response || ''
OnlyRecord(body) ==
    [status |-> "completed",
     response |-> TextResponse(OrElse(body.response, EMPTY)),
     analysis |-> EMPTY, error |-> EMPTY, updatedAt |-> now]

\* terminateClientsForRequest: ws.terminate() on every subscriber of rid (the
\* socket is destroyed; its 'close' event follows), then the set is dropped
terminateClientsForRequest(rid) ==
    [ws |-> [c \in Conn |-> IF rid \in DOMAIN subs /\ c \in subs[rid] /\ ws[c] = "open"
                            THEN "closing" ELSE ws[c]],
     subs |-> MapDelete(subs, rid)]

\* the callback of the timer h = <<rid, n>> armed at line 111, were it to run
OnlyTimerFire(h) ==
    LET rid == h[1] IN
    /\ h \in timers
    /\ timers' = timers \ {h}
    /\ IF HasJob(rid) /\ jobs[rid].status # "completed"
       THEN /\ jobs' = MapSet(jobs, rid,
                         [jobs[rid] EXCEPT !.status = "timed_out", !.updatedAt = now])
            /\ out' = Out("timer", rid, 0, "",
                          [type |-> "job_timeout", request_id |-> rid],
                          BroadcastTargets(rid))
            /\ ws' = terminateClientsForRequest(rid).ws
            /\ subs' = terminateClientsForRequest(rid).subs
       ELSE /\ out' = Out("timer", rid, 0, "", NoEvent, {})
            /\ UNCHANGED <<jobs, subs, ws>>
    /\ UNCHANGED <<meta, now, req>>

\* (the handler as it would be without the clearTimeout of line 127)
OnlyCallbackResultLeavesTimer(header, text) ==
    LET body == Parse(text)
        err == OnlyAuthError(header, body)
        rid == body.request_id
        Same(o) == [jobs |-> jobs, timers |-> timers, out |-> o]
    IN
    IF err = "throw" THEN Same(Out("callback", rid, 500, "internal error", NoEvent, {}))
    ELSE IF err # "" THEN Same(Out("callback", rid, 401, err, NoEvent, {}))
    ELSE IF ~Truthy(rid) THEN Same(Out("callback", rid, 400, "missing request_id", NoEvent, {}))
    ELSE IF HasJob(rid) /\ (jobs[rid].status = "completed" \/ jobs[rid].status = "timed_out")
    THEN Same(Out("callback", rid, 200, "already processed", NoEvent, {}))
    ELSE
        [jobs |-> MapSet(jobs, rid, OnlyRecord(body)),
         timers |-> timers \cup {<<rid, FreshHandle(rid)>>},
         out |-> Out("callback", rid, 200, "",
                     [type |-> "job_completed", request_id |-> rid,
                      status |-> OnlyRecord(body).status,
                      response |-> OnlyRecord(body).response],
                     BroadcastTargets(rid))]

\* What its POST /callbacks/fireworks does: the job store, the pending timers
\* and the answer it leaves. The timer armed at line 111 is cleared at line
\* 127 of the same run; the catch of line 137 turns a throw into a 500.
OnlyCallbackResult(header, text) ==
    LET body == Parse(text)
        err == OnlyAuthError(header, body)
        rid == body.request_id
        Same(o) == [jobs |-> jobs, timers |-> timers, out |-> o]
    IN
    IF err = "throw" THEN Same(Out("callback", rid, 500, "internal error", NoEvent, {}))
    ELSE IF err # "" THEN Same(Out("callback", rid, 401, err, NoEvent, {}))
    ELSE IF ~Truthy(rid) THEN Same(Out("callback", rid, 400, "missing request_id", NoEvent, {}))
    ELSE IF HasJob(rid) /\ (jobs[rid].status = "completed" \/ jobs[rid].status = "timed_out")
    THEN Same(Out("callback", rid, 200, "already processed", NoEvent, {}))
    ELSE
        LET timeoutId == <<rid, FreshHandle(rid)>> IN
        [jobs |-> MapSet(jobs, rid, OnlyRecord(body)),
         timers |-> (timers \cup {timeoutId}) \ {timeoutId},
         out |-> Out("callback", rid, 200, "",
                     [type |-> "job_completed", request_id |-> rid,
                      status |-> OnlyRecord(body).status,
                      response |-> OnlyRecord(body).response],
                     BroadcastTargets(rid))]

\* POST /callbacks/fireworks
OnlyCallback(header, text) ==
    \E res \in {OnlyCallbackResult(header, text)} :
    /\ jobs' = res.jobs
    /\ timers' = res.timers
    /\ out' = res.out
    /\ UNCHANGED <<subs, meta, ws, now, req>>

\* wss.on('connection')
OnlyConnect(c) ==
    /\ ws[c] = "new"
    /\ ws' = [ws EXCEPT ![c] = "open"]
    /\ meta' = MapSet(meta, c, {})
    /\ out' = Out("connect", ABSENT, 0, "", [type |-> "welcome"], {c})
    /\ UNCHANGED <<jobs, subs, timers, now, req>>

\* ws.on('message'): the whole handler is inside one try, so nothing escapes
\* it; a subscribe records the edge in both maps and sends nothing
OnlyMessage(c, kind, rid) ==
    /\ ws[c] = "open"
    /\ IF kind = "subscribe" /\ Truthy(rid)
       THEN /\ subs' = MapSet(subs, rid,
                        (IF rid \in DOMAIN subs THEN subs[rid] ELSE {}) \cup {c})
            /\ meta' = MapSet(meta, c, (IF c \in DOMAIN meta THEN meta[c] ELSE {}) \cup {rid})
       ELSE UNCHANGED <<subs, meta>>
    /\ out' = Out("message", rid, 0, "", NoEvent, {})
    /\ UNCHANGED <<jobs, ws, timers, now, req>>

\* ws.on('close')
OnlyClose(c) ==
    /\ ws[c] \in {"open", "closing"}
    /\ ws' = [ws EXCEPT ![c] = "closed"]
    /\ subs' = IF c \in DOMAIN meta THEN Unsubscribe(subs, c, meta[c]) ELSE subs
    /\ meta' = MapDelete(meta, c)
    /\ out' = Out("close", ABSENT, 0, "", NoEvent, {})
    /\ UNCHANGED <<jobs, timers, now, req>>

\* the callbacks sent to it: every way of writing the X-Signature header, and
\* every payload (whatever status and response it carries)
OnlyRequests == AuthRequests \cup SpecRequests

OnlyNext ==
    \/ Tick
    \/ \E c \in SpecConns : OnlyConnect(c)
    \/ \E c \in SpecConns, kind \in {"garbage", "null", "other", "subscribe"},
          rid \in SpecRids \cup {ABSENT} : OnlyMessage(c, kind, rid)
    \/ \E c \in SpecConns : BeginClose(c)
    \/ \E c \in SpecConns : OnlyClose(c)
    \/ \E r \in OnlyRequests : OnlyCallback(r.header, r.text)

OnlySpec == Init /\ [][OnlyNext]_vars

----------------------------------------------------------------------------
(* Claims *)

Terminal == {"completed", "timed_out"}

IsTerminal(r) == HasJob(r) /\ jobs[r].status \in Terminal

\* an event published through broadcastToRequest
IsBroadcast(event) == event.type \in {"job_completed", "job_timeout"}

\* C1: once a job is completed or timed_out, no step of any handler changes
\* its status, its response or its updatedAt.
C1_TerminalJobNeverChanges ==
    [][\A r \in Rid :
          IsTerminal(r) =>
              /\ r \in DOMAIN jobs'
              /\ jobs'[r].status = jobs[r].status
              /\ jobs'[r].response = jobs[r].response
              /\ jobs'[r].updatedAt = jobs[r].updatedAt]_vars

\* C2: of the timer expiry and the callback racing for one job, the one that
\* comes second finds the job terminal, changes nothing and broadcasts
\* nothing, so the job gets one terminal state and one broadcast event.
C2_RaceLoserIsNoOp ==
    [][\A r \in Rid :
          (IsTerminal(r) /\ out'.op \in {"timer", "callback"} /\ out'.rid = r) =>
              (jobs' = jobs /\ ~IsBroadcast(out'.event))]_vars

\* a callback that passes authentication, names a job and reports completion
CompletedCallback(q) ==
    /\ AuthError(q.header, Parse(q.text)) = ""
    /\ Truthy(Parse(q.text).request_id)
    /\ Parse(q.text).status \in {ABSENT, "completed"}

\* C3: in every reachable state a completed callback is answered 200; its
\* first post completes the job and broadcasts one job_completed; from then
\* on the job record never changes, and every later post of it leaves the job
\* store as it is and broadcasts nothing.
C3_DuplicateCallbackIsIdempotent ==
    /\ [](\A q \in SpecRequests :
            CompletedCallback(q) =>
                \A r \in {Parse(q.text).request_id},
                   res \in {CallbackResult(q.header, q.text)} :
                    /\ res.out.reply = 200
                    /\ IF HasJob(r) /\ jobs[r].status = "completed"
                       THEN res.jobs = jobs /\ res.out.event = NoEvent
                       ELSE /\ res.jobs[r].status = "completed"
                            /\ res.out.event.type = "job_completed")
    /\ [][\A r \in Rid :
            (HasJob(r) /\ jobs[r].status = "completed") =>
                (r \in DOMAIN jobs' /\ jobs'[r] = jobs[r])]_vars

\* C3 witness: a completed callback was posted again and met the guard
C3_Witness ==
    /\ out.op = "callback"
    /\ out.reply = 200
    /\ out.note = "already completed"
    /\ HasJob(out.rid)
    /\ jobs[out.rid].status = "completed"
    /\ jobs[out.rid].response = TextResponse("R1")

Subscribed(c, r) == r \in DOMAIN subs /\ c \in subs[r]
Remembered(c, r) == c \in DOMAIN meta /\ r \in meta[c]

\* C4: connection c is in subs[r] if and only if r is in meta[c].
C4_IndexesMirror ==
    \A c \in Conn, r \in Rid : Subscribed(c, r) <=> Remembered(c, r)

\* C5: an event published for request id B goes to exactly the writable
\* members of subs[B] when that set is not empty, and to every writable
\* connection when it is; so a connection subscribed only to another id gets
\* no event for B while B has a subscriber.
C5_DeliveryFollowsSubscriptions ==
    [][IsBroadcast(out'.event) =>
          LET B == out'.rid IN
          /\ (\E c \in Conn : Subscribed(c, B)) =>
                out'.to = {c \in Conn : Subscribed(c, B) /\ ws[c] = "open"}
          /\ (~\E c \in Conn : Subscribed(c, B)) =>
                out'.to = {c \in Conn : ws[c] = "open"}
          /\ \A c \in Conn, A \in Rid \ {B} :
                (Subscribed(c, A) /\ ~Subscribed(c, B) /\ \E d \in Conn : Subscribed(d, B))
                    => c \notin out'.to]_vars

\* C5 witness: an event for a request id whose only subscriber is no longer
\* writable reached nobody, although a writable connection subscribed to the
\* other request id was there
C5_Witness ==
    /\ out.op = "callback"
    /\ out.event.type = "job_completed"
    /\ out.to = {}
    /\ \E c, d \in Conn, A \in Rid \ {out.rid} :
          /\ Subscribed(c, out.rid) /\ ws[c] = "closing"
          /\ Subscribed(d, A) /\ ~Subscribed(d, out.rid) /\ ws[d] = "open"

\* the timer h is the one the job record of its request id holds
Armed(h) == h \in timers /\ HasJob(h[1]) /\ jobs[h[1]].timeoutId = h[2]

\* timers fire: the event loop runs every timer whose delay has passed
FairSubsSpec == SubsSpec /\ \A h \in Handles : WF_vars(TimerFire(h))

\* C6: a job whose deadline is armed is timed_out in the end, unless a
\* callback disarms the timer or /external-start replaces it first; and the
\* expiry sets timed_out and sends job_timeout for the request id to every
\* writable connection subscribed to it at that moment.
C6_ArmedJobTimesOut ==
    /\ \A h \in Handles :
          Armed(h) ~> (HasJob(h[1]) /\ (jobs[h[1]].status = "timed_out"
                                         \/ jobs[h[1]].timeoutId # h[2]))
    /\ [][\A h \in Handles :
            (out'.op = "timer" /\ TimerFire(h)) =>
                /\ h[1] \in DOMAIN jobs'
                /\ jobs'[h[1]].status = "timed_out"
                /\ out'.event = [type |-> "job_timeout", request_id |-> h[1],
                                 status |-> "timed_out"]
                /\ {c \in Conn : Subscribed(c, h[1]) /\ ws[c] = "open"} \subseteq out'.to]_vars

\* C6 witness: the timer of a job with a writable subscriber expired and the
\* subscriber was sent job_timeout
C6_Witness ==
    /\ out.op = "timer"
    /\ out.event.type = "job_timeout"
    /\ HasJob(out.rid)
    /\ jobs[out.rid].status = "timed_out"
    /\ \E c \in Conn : c \in out.to /\ Remembered(c, out.rid)

\* the job r was started by /external-start and its timer has not expired
InWindow(r) ==
    HasJob(r) /\ jobs[r].status = "processing" /\ <<r, jobs[r].timeoutId>> \in timers

\* every callback that reports completion for a job in its window and
\* carries a response in the set responses completes the job, stores that
\* response and publishes it to the job's writable subscribers
CompletionStores(responses) ==
    \A q \in SpecRequests :
        \A b \in {Parse(q.text)} :
            (CompletedCallback(q) /\ b.response \in responses /\ InWindow(b.request_id)) =>
                \A r \in {b.request_id}, res \in {CallbackResult(q.header, q.text)} :
                    /\ res.jobs[r].status = "completed"
                    /\ res.jobs[r].response = TextResponse(b.response)
                    /\ res.out.event = [type |-> "job_completed", request_id |-> r,
                                        status |-> "completed",
                                        response |-> TextResponse(b.response)]
                    /\ (\E c \in Conn : Subscribed(c, r)) =>
                          res.out.to = {c \in Conn : Subscribed(c, r) /\ ws[c] = "open"}

\* a step from a state where job r is completed publishes no further
\* job_completed for r, and a GET /status of r answers the stored record
CompletedIsReported(r) ==
    (HasJob(r) /\ jobs[r].status = "completed") =>
        /\ ~(out'.event.type = "job_completed" /\ out'.rid = r)
        /\ (out'.op = "status" /\ out'.rid = r) =>
              /\ out'.reply = 200
              /\ out'.event.status = "completed"
              /\ out'.event.response = jobs[r].response

\* C7 as stated: a valid callback carrying any response R, arriving in the
\* window, leaves status completed and stored response R; GET /status returns
\* them; the subscribers get exactly one job_completed carrying R.
C7_AnyResponseIsStored ==
    /\ [](CompletionStores(Range(ResponseVals) \ {ABSENT}))
    /\ [][\A r \in Rid : CompletedIsReported(r)]_vars

\* What holds of C7: the same for a response R that is not empty (not falsy).
CompletionStoresTruthyResponse ==
    /\ [](CompletionStores({x \in Range(ResponseVals) : Truthy(x)}))
    /\ [][\A r \in Rid : CompletedIsReported(r)]_vars

\* C8: a job holds a timer handle only while it is processing with that
\* timer pending; a job in any other status holds none and has no timer.
C8_HandleOnlyWhileProcessing ==
    \A r \in Rid :
        HasJob(r) =>
            /\ jobs[r].timeoutId # NULL =>
                  (jobs[r].status = "processing" /\ <<r, jobs[r].timeoutId>> \in timers)
            /\ jobs[r].status # "processing" =>
                  (jobs[r].timeoutId = NULL /\ \A h \in timers : h[1] # r)

Statuses == {"pending", "processing", "completed", "timed_out"}

\* a status change along pending -> processing -> {completed | timed_out}
Forward(a, b) ==
    \/ a = "pending" /\ b \in {"processing", "completed", "timed_out"}
    \/ a = "processing" /\ b \in {"completed", "timed_out"}

\* C9: every job's status is one of the four, and every change of it moves
\* forward, whatever status a callback payload carries.
C9_StatusMovesForward ==
    /\ [](\A r \in Rid : HasJob(r) => jobs[r].status \in Statuses)
    /\ [][\A r \in Rid :
            (HasJob(r) /\ r \in DOMAIN jobs' /\ jobs'[r].status # jobs[r].status) =>
                Forward(jobs[r].status, jobs'[r].status)]_vars

\* the hex digits of d as numbers (so that "A" and "a" are one digit)
Nibbles(d) == [i \in 1..Len(d) |-> HexVal(d[i])]

\* header has the form sha256=<hex>
HasSignatureForm(header) ==
    /\ Len(SplitEq(header)) = 2
    /\ SplitEq(header)[1] = <<"sha256">>
    /\ SplitEq(header)[2] # <<>>
    /\ \A i \in 1..Len(SplitEq(header)[2]) : IsHex(SplitEq(header)[2][i])

\* the digits by which the digest of header differs from the HMAC of the
\* body as it was sent
WrongDigits(header, text) ==
    LET given == SplitEq(header)[2]
        right == computeHmacHex(text, SHARED_SECRET)
    IN  IF Len(given) # Len(right) THEN {0}
        ELSE {i \in 1..Len(right) : Nibbles(given)[i] # Nibbles(right)[i]}

Accepted == out.reply # 401

\* C10: a callback signed sha256=<hex> with the HMAC of its body is accepted;
\* one digit of the digest changed, it is answered 401; a header of any
\* other scheme or shape is answered 401; without the header the in-body
\* shared_secret alone decides.
C10_SignatureDecides ==
    out.op = "callback" =>
        /\ (HasSignatureForm(req.header) /\ WrongDigits(req.header, req.text) = {})
              => Accepted
        /\ (HasSignatureForm(req.header)
              /\ Cardinality(WrongDigits(req.header, req.text)) = 1
              /\ 0 \notin WrongDigits(req.header, req.text))
              => (out.reply = 401 /\ out.note = "invalid signature")
        /\ (req.header # <<>> /\ ~HasSignatureForm(req.header)) => out.reply = 401
        /\ req.header = <<>> =>
              (Accepted <=> req.text.content.shared_secret = SHARED_SECRET)

\* C11: a callback answered 401 (failed authentication) or 400 (no
\* request_id) leaves every job record, every timer and both subscription
\* indexes as they were and sends no event; and every callback that fails
\* authentication or names no request id is answered so.
C11_RejectedCallbackChangesNothing ==
    /\ [](\A q \in SpecRequests :
            \A res \in {CallbackResult(q.header, q.text)} :
                /\ AuthError(q.header, Parse(q.text)) # "" => res.out.reply = 401
                /\ (AuthError(q.header, Parse(q.text)) = ""
                      /\ ~Truthy(Parse(q.text).request_id)) => res.out.reply = 400
                /\ res.out.reply \in {400, 401} =>
                      (res.jobs = jobs /\ res.timers = timers /\ res.out.event = NoEvent))
    /\ [][(out'.op = "callback" /\ out'.reply \in {400, 401}) =>
            /\ jobs' = jobs
            /\ timers' = timers
            /\ subs' = subs
            /\ meta' = meta
            /\ out'.event = NoEvent
            /\ out'.to = {}]_vars

\* C11 witness: a callback was answered 401 while its job was processing with
\* the timer pending and a subscriber listening
C11_Witness ==
    /\ out.op = "callback"
    /\ out.reply = 401
    /\ InWindow(out.rid)
    /\ \E c \in Conn : Subscribed(c, out.rid) /\ ws[c] = "open"

\* C12: /external-start answers 404 and changes nothing for an unknown
\* request id; for a completed or timed_out job it answers 200 with a note,
\* changes no field of the job and arms no timer; for any other job it sets
\* the status to processing and leaves exactly one timer pending for it, the
\* one the job record holds.
C12_ExternalStartCases ==
    [][\A r \in Rid :
          (out'.op = "external-start" /\ out'.rid = r) =>
              IF ~HasJob(r)
              THEN /\ out'.reply = 404
                   /\ UNCHANGED <<jobs, timers, subs, meta>>
                   /\ out'.event = NoEvent
              ELSE IF jobs[r].status \in Terminal
              THEN /\ out'.reply = 200
                   /\ out'.note = "job already finished"
                   /\ UNCHANGED <<jobs, timers, subs, meta>>
                   /\ out'.event = NoEvent
              ELSE /\ out'.reply = 200
                   /\ DOMAIN jobs' = DOMAIN jobs
                   /\ jobs'[r].status = "processing"
                   /\ jobs'[r].response = jobs[r].response
                   /\ {h \in timers' : h[1] = r} = {<<r, jobs'[r].timeoutId>>}
                   /\ \A x \in Rid \ {r} :
                         /\ HasJob(x) => jobs'[x] = jobs[x]
                         /\ {h \in timers' : h[1] = x} = {h \in timers : h[1] = x}]_vars

\* C12 witness: /external-start was called for a job that had timed out
C12_Witness ==
    /\ out.op = "external-start"
    /\ out.note = "job already finished"
    /\ HasJob(out.rid)
    /\ jobs[out.rid].status = "timed_out"
    /\ timers = {}

\* C13: a connection that subscribes to a request id whose job is completed
\* is sent, in that same step, a job_state message for that id whose status
\* and response are the job's stored status and response.
C13_LateSubscriberGetsFinalState ==
    [][\A c \in Conn, r \in Rid :
          (HasJob(r) /\ jobs[r].status = "completed" /\ Message(c, "subscribe", r)) =>
              /\ out'.to = {c}
              /\ out'.event = [type |-> "job_state", request_id |-> r,
                               status |-> jobs[r].status,
                               response |-> jobs[r].response]
              /\ Subscribed(c, r)']_vars

\* C13 witness: a subscribe arrived after the job was completed and the
\* snapshot carrying the stored response went to the subscriber
C13_Witness ==
    /\ out.op = "message"
    /\ out.event.type = "job_state"
    /\ out.event.status = "completed"
    /\ out.event.response = TextResponse("R1")
    /\ jobs[out.rid].response = TextResponse("R1")
    /\ out.to # {}

\* C14: a timer that fires for a job whose status is processing sets it to
\* timed_out and broadcasts job_timeout; a timer that fires for a job in any
\* other status changes nothing and broadcasts nothing.
C14_ExpiryOnlyFromProcessing ==
    [][\A r \in Rid :
          (out'.op = "timer" /\ out'.rid = r) =>
              IF HasJob(r) /\ jobs[r].status = "processing"
              THEN /\ jobs'[r].status = "timed_out"
                   /\ out'.event.type = "job_timeout"
                   /\ out'.event.request_id = r
              ELSE /\ jobs' = jobs
                   /\ subs' = subs
                   /\ out'.event = NoEvent
                   /\ out'.to = {}]_vars

\* C14 witness: the timer of a processing job that had received no callback
\* fired, and the job is timed_out
C14_Witness ==
    /\ out.op = "timer"
    /\ out.event.type = "job_timeout"
    /\ HasJob(out.rid)
    /\ jobs[out.rid].status = "timed_out"
    /\ jobs[out.rid].response = NullResponse
    /\ timers = {}

\* C15 as stated: a job record enters the store only through /start; a
\* callback, an /external-start or a subscribe naming a request id that was
\* never created adds no record.
C15_OnlyStartCreatesJobs ==
    [][\A r \in Rid :
          (~HasJob(r) /\ r \in DOMAIN jobs') => (out'.op = "start" /\ out'.rid = r)]_vars

\* What holds of C15: a job record enters the store only through /start or
\* through a callback that passed authentication and names the request id
\* (which stores a new record when the id is unknown); /external-start, a
\* subscribe, GET /status, a timer and a rejected callback add none, and no
\* record ever leaves the store.
C15_OnlyStartOrCallbackCreatesJobs ==
    [][/\ DOMAIN jobs \subseteq DOMAIN jobs'
       /\ \A r \in Rid :
            (~HasJob(r) /\ r \in DOMAIN jobs') =>
                /\ out'.rid = r
                /\ \/ out'.op = "start"
                   \/ /\ out'.op = "callback"
                      /\ out'.reply = 200
                      /\ out'.event.type = "job_completed"
       /\ (out'.op \in {"external-start", "message", "status", "timer"}
             \/ (out'.op = "callback" /\ out'.reply # 200))
            => DOMAIN jobs' = DOMAIN jobs]_vars

\* C15 witness: /external-start, asked about a request id that no record
\* exists for, answered 404 and the store is still empty
C15_Witness ==
    /\ out.op = "external-start"
    /\ out.reply = 404
    /\ out.rid \in Rid
    /\ jobs = <<>>

\* C16: every inbound message that is not a well-formed subscribe
\* (unparseable text, the JSON text null, an object without type or without
\* request_id) is dropped: the handler ends without a fault, jobs and both
\* subscription indexes are unchanged and nothing is sent.
C16_MalformedMessageIsDropped ==
    [][\A c \in Conn, kind \in {"garbage", "null", "other", "subscribe"},
         rid \in Rid \cup {ABSENT} :
          (~(kind = "subscribe" /\ Truthy(rid)) /\ Message(c, kind, rid)) =>
              /\ UNCHANGED <<jobs, subs, meta, timers>>
              /\ out'.event = NoEvent
              /\ out'.to = {}
              /\ out'.note # "TypeError"]_vars

\* C17: a connection whose close event has run is in no request id's
\* subscriber set and has no entry in the connection index; the close step
\* leaves the subscription edges of every other connection as they were; and
\* no later event is sent to the closed connection.
C17_CloseRemovesOnlyOwnEdges ==
    /\ [](\A c \in Conn :
            ws[c] = "closed" =>
                (c \notin DOMAIN meta /\ \A r \in Rid : ~Subscribed(c, r)))
    /\ [][\A c \in Conn :
            /\ (ws[c] # "closed" /\ ws'[c] = "closed") =>
                  \A d \in Conn \ {c}, r \in Rid :
                      /\ Subscribed(d, r)' <=> Subscribed(d, r)
                      /\ Remembered(d, r)' <=> Remembered(d, r)
            /\ ws[c] = "closed" => c \notin out'.to]_vars

\* C17 witness: a connection has closed while the other one, still open, is
\* the one subscriber of both request ids in both indexes
C17_Witness ==
    /\ out.op = "close"
    /\ \E c, d \in Conn :
          /\ ws[c] = "closed"
          /\ ws[d] = "open"
          /\ \A r \in Rid : Subscribed(d, r) /\ Remembered(d, r) /\ subs[r] = {d}

\* the digest part of a header of the form sha256=<digest>
DigestOf(header) == SplitEq(header)[2]

\* given is the hex text of the same bytes as right
SameDigest(given, right) ==
    /\ Len(given) = Len(right)
    /\ \A i \in 1..Len(given) : IsHex(given[i])
    /\ Nibbles(given) = Nibbles(right)

\* C18: in the callback-only server every callback whose X-Signature has the
\* form sha256=<digest> with a digest that is not the computed HMAC, one of
\* another byte length included, is answered 401 'invalid signature', never
\* 500, and changes no job.
C18_WrongDigestIs401 ==
    \A q \in OnlyRequests :
        (/\ Len(SplitEq(q.header)) = 2
         /\ SplitEq(q.header)[1] = <<"sha256">>
         /\ ~SameDigest(DigestOf(q.header),
                        computeHmacHex(Stringify(Parse(q.text)), SHARED_SECRET))) =>
            \A res \in {OnlyCallbackResult(q.header, q.text)} :
                /\ res.out.reply = 401
                /\ res.out.note = "invalid signature"
                /\ res.jobs = jobs

\* the response value r carries the shared secret of the request body
CarriesSecret(r) == r.k = "body" /\ r.v.shared_secret = SHARED_SECRET

\* C19: the shared_secret of a callback authenticated by the in-body fallback
\* is never part of a stored job response, of a GET /status reply or of an
\* event sent to a connection, whatever the body, one without a response
\* field included.
C19_SecretStaysOutOfResponses ==
    /\ \A r \in Rid : HasJob(r) => ~CarriesSecret(jobs[r].response)
    /\ out.event.type \in {"job_completed", "job_state", "status"} =>
          ~CarriesSecret(out.event.response)

\* C20: in every reachable state a job whose status is processing has a
\* timeout timer pending for it, the one its record holds.
C20_ProcessingHasDeadline ==
    \A r \in Rid :
        (HasJob(r) /\ jobs[r].status = "processing") =>
            (jobs[r].timeoutId # NULL /\ <<r, jobs[r].timeoutId>> \in timers)

\* C21: in the callback-only server the timer armed inside the callback
\* handler is cancelled in the same run, so it never fires: in every
\* reachable state no timer is pending and the timer callback cannot run, no
\* job is timed_out, no job_timeout has been sent, no connection has been
\* terminated by terminateClientsForRequest, and every stored job is
\* completed.
C21_ArmedTimerNeverFires ==
    /\ timers = {}
    /\ \A h \in Handles : ~ENABLED OnlyTimerFire(h)
    /\ \A r \in Rid : HasJob(r) => jobs[r].status = "completed"
    /\ out.op # "timer"
    /\ out.event.type # "job_timeout"

\* C21 witness: a callback was accepted, its record is stored completed and
\* its subscriber, still connected, was sent job_completed
C21_Witness ==
    /\ out.op = "callback"
    /\ out.reply = 200
    /\ out.event.type = "job_completed"
    /\ HasJob(out.rid)
    /\ jobs[out.rid].status = "completed"
    /\ \E c \in Conn : c \in out.to /\ Subscribed(c, out.rid) /\ ws[c] = "open"

====
